---------------------------- MODULE Spec2Model ----------------------------
(***************************************************************************)
(* A model of dudect-rs: the Welch t-test accumulator of statistics.rs and *)
(* the measurement context of dudect.rs (measure, prepare_percentiles,     *)
(* update_statistics, report, max_test).                                   *)
(*                                                                         *)
(* Arithmetic.  The f64 values of the program are held as exact rationals  *)
(* <<n, d>> in lowest terms with d > 0; floating-point rounding is not     *)
(* modelled.  A t value is num / sqrt(x) with x rational; it is held as    *)
(* its signed square sign(num) * num^2 / x, which is strictly monotone in  *)
(* t, so every comparison the program makes on t values (partial_cmp, the  *)
(* thresholds of report, den == 0.0) is decided exactly.                   *)
(***************************************************************************)
EXTENDS Integers, Sequences, FiniteSets, TLC

VARIABLES
    \* ---- fields of MeasurementContext (dudect.rs:22-35)
    first_tick,
    ticks,
    number_of_computations_per_run,
    execution_times,
    first_order_uncropped_test,
    percentile_tests,
    second_order_test,
    input_data,
    is_group_a,
    percentiles,
    \* ---- the build and the caller's view of the context
    overflow_checks,   \* TRUE: built with overflow checks (debug profile)
    result,            \* what the last execute_measurement_run returned
    path,              \* which branch the last execute_measurement_run took
    runs,              \* calls of execute_measurement_run so far
    wrapped,           \* some tick read so far was below the one before it
    \* ---- a t-test used on its own (statistics.rs), with the pushes made
    ttest,
    pushed

vars == <<first_tick, ticks, number_of_computations_per_run, execution_times,
          first_order_uncropped_test, percentile_tests, second_order_test,
          input_data, is_group_a, percentiles, overflow_checks, result, path,
          runs, wrapped, ttest, pushed>>

ctxvars == <<first_tick, ticks, number_of_computations_per_run, execution_times,
             first_order_uncropped_test, percentile_tests, second_order_test,
             input_data, is_group_a, percentiles, overflow_checks, result, path,
             runs, wrapped>>

-----------------------------------------------------------------------------
(* Bounds of the model.                                                    *)

\* width of the tick counter in bits (u64 in the program)
TickBits == 7
\* number_of_computations_per_run of the contexts that are built
NumComputations == 13
\* a short context, whose runs never reach the measured range
SmallRun == 3
\* calls of execute_measurement_run in the long, narrow specification
MaxRuns == 4
\* calls of execute_measurement_run in the short, wide specification
MaxWideRuns == 2
\* pushes made to the t-test that is used on its own
MaxPushes == 5
\* ENOUGH_MEASUREMENTS (10000 in the program), scaled to the runs above
ENOUGH_MEASUREMENTS == 6
\* the literal 10000.0 that engages the second-order test, scaled likewise
SECOND_ORDER_AFTER == 1

-----------------------------------------------------------------------------
(* Program constants.                                                      *)

NUMBER_PERCENTILES == 100
TTEST_FAILED_MODERATE == 10
TTEST_FAILED_OVERWHELMINGLY == 500
\* update_statistics discards the samples before this index
FIRST_MEASURED == 10

-----------------------------------------------------------------------------
(* Exact rationals standing for f64.                                       *)

RECURSIVE GCD(_, _)
GCD(a, b) == IF b = 0 THEN a ELSE GCD(b, a % b)

AbsInt(a) == IF a < 0 THEN -a ELSE a

\* n / d with the common divisor g taken out, denominator positive
Reduced(n, d, g) ==
    IF d < 0 THEN <<(-n) \div g, (-d) \div g>> ELSE <<n \div g, d \div g>>

\* the rational n / d (d # 0) in lowest terms
Rat(n, d) == Reduced(n, d, GCD(AbsInt(n), AbsInt(d)))

\* u64 as f64, usize as f64
AsF64(n) == <<n, 1>>

AddOver(a, b, g) ==
    Rat(a[1] * (b[2] \div g) + b[1] * (a[2] \div g), (a[2] \div g) * b[2])
RAdd(a, b) == AddOver(a, b, GCD(a[2], b[2]))
RNeg(a) == <<-a[1], a[2]>>
RSub(a, b) == RAdd(a, RNeg(b))
MulOver(a, b, g1, g2) ==
    Rat((a[1] \div g1) * (b[1] \div g2), (a[2] \div g2) * (b[2] \div g1))
RMul(a, b) == MulOver(a, b, GCD(AbsInt(a[1]), b[2]), GCD(AbsInt(b[1]), a[2]))
\* a / b for b # 0
RDiv(a, b) == RMul(a, IF b[1] < 0 THEN <<-b[2], -b[1]>> ELSE <<b[2], b[1]>>)
\* n1/d1 < n2/d2 for n1, n2 >= 0 and d1, d2 > 0, by comparing the integer
\* parts and then the reciprocals of the fractional parts (no products)
RECURSIVE PosLt(_, _, _, _)
PosLt(n1, d1, n2, d2) ==
    IF n1 \div d1 # n2 \div d2 THEN n1 \div d1 < n2 \div d2
    ELSE IF n2 % d2 = 0 THEN FALSE
    ELSE IF n1 % d1 = 0 THEN TRUE
    ELSE PosLt(d2, n2 % d2, d1, n1 % d1)
\* a < b
RLt(a, b) ==
    IF a[1] < 0
    THEN IF b[1] < 0 THEN PosLt(-b[1], b[2], -a[1], a[2]) ELSE TRUE
    ELSE IF b[1] < 0 THEN FALSE ELSE PosLt(a[1], a[2], b[1], b[2])
RAbs(a) == <<AbsInt(a[1]), a[2]>>
RZero == <<0, 1>>

\* Option<f64>
None == <<>>
Some(v) == <<v>>
unwrap_or(o, default) == IF o = None THEN default ELSE o[1]

-----------------------------------------------------------------------------
(* statistics.rs                                                           *)

GroupValues_default == [mean |-> RZero, m2 |-> RZero, number_samples |-> 0]

TTest_new == [groups |-> [g \in {0, 1} |-> GroupValues_default]]

\* Welford's update of one group with its values named as in push
Welford(group, value, number_samples, delta, mean) ==
    [mean |-> mean,
     m2 |-> RAdd(group.m2, RMul(delta, RSub(value, mean))),
     number_samples |-> number_samples]

WelfordDelta(group, value, number_samples, delta) ==
    Welford(group, value, number_samples, delta,
            RAdd(group.mean, RDiv(delta, AsF64(number_samples))))

push_group(group, value) ==
    WelfordDelta(group, value, group.number_samples + 1, RSub(value, group.mean))

\* a push that forgets to count the sample
push_uncounted(t, value, is_sample_group_a) ==
    [groups |-> [t.groups EXCEPT ![IF is_sample_group_a THEN 0 ELSE 1] =
        [push_group(@, value) EXCEPT !.number_samples = @ - 1]]]

\* a push whose m2 update uses the old mean on both sides (delta * delta)
push_old_mean(t, value, is_sample_group_a) ==
    [groups |-> [t.groups EXCEPT ![IF is_sample_group_a THEN 0 ELSE 1] =
        [push_group(@, value) EXCEPT
            !.m2 = RAdd(t.groups[IF is_sample_group_a THEN 0 ELSE 1].m2,
                        RMul(RSub(value, t.groups[IF is_sample_group_a THEN 0 ELSE 1].mean),
                             RSub(value, t.groups[IF is_sample_group_a THEN 0 ELSE 1].mean)))]]]

\* TTest::push: Welford's update of the selected group
\*   number_samples += 1; delta = value - mean;
\*   mean += delta / number_samples; m2 += delta * (value - mean)
push(t, value, is_sample_group_a) ==
    [groups |-> [t.groups EXCEPT ![IF is_sample_group_a THEN 0 ELSE 1] =
        push_group(@, value)]]

\* sign(num) * sq
Signed(num, sq) == IF num[1] < 0 THEN RNeg(sq) ELSE sq

\* the t value num / sqrt(den2), held as sign(num) * num^2 / den2  (den2 > 0)
TValue(num, den2) == Signed(num, RDiv(RMul(num, num), den2))

\* den = sqrt(den2), so den == 0.0 exactly when den2 is 0
TOver(num, den2) == IF den2 = RZero THEN None ELSE Some(TValue(num, den2))

\* m2 / (number_samples - 1) / number_samples of one group
VarOverN(group) ==
    RDiv(RDiv(group.m2, AsF64(group.number_samples - 1)), AsF64(group.number_samples))

compute_groups(group_a, group_b) ==
    IF group_a.number_samples <= 1 \/ group_b.number_samples <= 1
    THEN None
    ELSE TOver(RSub(group_a.mean, group_b.mean),
               RAdd(VarOverN(group_a), VarOverN(group_b)))

\* TTest::compute: None, or Some(t) with t held as its signed square
compute(t) == compute_groups(t.groups[0], t.groups[1])

get_number_of_samples(t) ==
    [g \in {0, 1} |-> t.groups[g].number_samples]

get_mean(t) == [g \in {0, 1} |-> t.groups[g].mean]

-----------------------------------------------------------------------------
(* dudect.rs: the tick counter and the buffers                             *)

RECURSIVE Pow2(_)
Pow2(n) == IF n = 0 THEN 1 ELSE 2 * Pow2(n - 1)

\* cpu_ticks returns a value of the counter's width
TickModulus == Pow2(TickBits)

\* a Vec or array of length n, indexed from 0 as in the program
Filled(n, v) == [i \in 0 .. n - 1 |-> v]
ArrayLen(a) == Cardinality(DOMAIN a)

\* current_tick - previous_tick on u64 when the build lets it wrap
wrapping_sub(a, b) == (a - b + TickModulus) % TickModulus

previous_tick(ft, tk, i) == IF i = 0 THEN ft ELSE tk[i - 1]

\* the indices at which the subtraction of measure overflows
OverflowAt(ft, tk) == {i \in DOMAIN tk : tk[i] < previous_tick(ft, tk, i)}

Min(S) == CHOOSE x \in S : \A y \in S : x <= y

\* the second loop of measure: execution_times[i] = ticks[i] - ticks[i-1].
\* The operator - on u64 panics on overflow in a build with overflow checks
\* and wraps in a build without; a panic leaves the later entries as they were.
measure_times(checks, ft, tk, old) ==
    IF checks /\ OverflowAt(ft, tk) # {}
    THEN LET k == Min(OverflowAt(ft, tk))
         IN  [panic |-> TRUE,
              times |-> [i \in DOMAIN tk |->
                          IF i < k THEN tk[i] - previous_tick(ft, tk, i)
                          ELSE old[i]]]
    ELSE [panic |-> FALSE,
          times |-> [i \in DOMAIN tk |->
                      wrapping_sub(tk[i], previous_tick(ft, tk, i))]]

-----------------------------------------------------------------------------
(* dudect.rs: percentile and prepare_percentiles                           *)

RECURSIVE Insert(_, _)
Insert(s, x) ==
    IF s = <<>> THEN <<x>>
    ELSE IF x <= Head(s) THEN <<x>> \o s
    ELSE <<Head(s)>> \o Insert(Tail(s), x)

RECURSIVE SortFrom(_, _, _)
SortFrom(data, i, acc) ==
    IF i \notin DOMAIN data THEN acc
    ELSE SortFrom(data, i + 1, Insert(acc, data[i]))

\* a percentile that reads the buffer as it is
unsorted(data) == data

\* data.sort_unstable() on u64: the values in ascending order
sort_unstable(data) ==
    LET s == SortFrom(data, 0, <<>>)
    IN  [i \in DOMAIN data |-> s[i + 1]]

\* 2^(-b/10) for b in 0..9, in units of 1/POW_SCALE, rounded down
POW_SCALE == 100000
Pow2NegTenths == <<100000, 93303, 87055, 81225, 75785,
                   70710, 65975, 61557, 57434, 53588>>

\* 1.0 - powf(0.5, 10.0 * (i + 1.0) / len) for len = NUMBER_PERCENTILES = 100:
\* with i + 1 = 10 a + b the power is 2^(-a) * 2^(-b/10).  The value is held
\* as <<n, d>>; floor(m * n / d) equals the program's (m as f64 * which) as
\* usize for every m up to 199.
which_of(i) ==
    LET a == (i + 1) \div 10
        b == (i + 1) % 10
        d == POW_SCALE * Pow2(a)
    IN  <<d - Pow2NegTenths[b + 1], d>>

\* percentile(data, which): sorts data in place; the assertion fails when
\* the position is not below the length
percentile(data, which) ==
    LET sorted == sort_unstable(data)
        array_position == (ArrayLen(data) * which[1]) \div which[2]
    IN  [data |-> sorted,
         failed |-> ~(array_position < ArrayLen(data)),
         value |-> IF array_position < ArrayLen(data) THEN sorted[array_position]
                   ELSE 0]

\* prepare_percentiles: percentiles[i] = percentile(execution_times, which_of(i))
\* for i = 0, 1, ...  The first call of percentile sorts the buffer and every
\* later call sorts the sorted buffer again; a failed assertion leaves the
\* entries from there on as they were.
percentiles_of(sorted, pcts, failing) ==
    [times |-> sorted,
     pcts |-> [i \in DOMAIN pcts |->
                IF \E j \in failing : j <= i THEN pcts[i]
                ELSE percentile(sorted, which_of(i)).value],
     failed |-> failing # {}]

failing_calls(sorted, pcts) ==
    {i \in DOMAIN pcts : percentile(sorted, which_of(i)).failed}

prepare_sorted(sorted, pcts) ==
    percentiles_of(sorted, pcts, failing_calls(sorted, pcts))

prepare_percentiles(times, pcts) == prepare_sorted(sort_unstable(times), pcts)

-----------------------------------------------------------------------------
(* dudect.rs: update_statistics                                            *)

\* the three kinds of t-test of a context, as update_statistics threads them
Tests(fo, pt, so) ==
    [first_order_uncropped_test |-> fo, percentile_tests |-> pt,
     second_order_test |-> so]

\* a loop that starts one sample early
measured_range_early(n) == (FIRST_MEASURED - 1) .. ((n - 1) - 1)

\* the range 10..number_of_computations_per_run - 1 of update_statistics
\* (its end is exclusive)
measured_range(n) == FIRST_MEASURED .. ((n - 1) - 1)

\* a second-order test engaged one sample early (>= for >)
second_order_engaged_early(t) == get_number_of_samples(t)[0] >= SECOND_ORDER_AFTER

\* percentile_tests[0].get_number_of_samples()[0] > 10000.0
second_order_engaged(t) == get_number_of_samples(t)[0] > SECOND_ORDER_AFTER

\* the second-order step of the loop body, after the pushes fo and pt
second_order_step(so, pt0, difference, group_a) ==
    IF second_order_engaged(pt0)
    THEN push(so,
              RMul(RSub(difference, get_mean(pt0)[IF group_a THEN 0 ELSE 1]),
                   RSub(difference, get_mean(pt0)[IF group_a THEN 0 ELSE 1])),
              group_a)
    ELSE so

\* the cropped pushes of the loop body
\* (f @@ <<>> is f: it only makes TLC evaluate the array once)
cropped_step(pt, pcts, difference, group_a) ==
    [crop_index \in DOMAIN pcts |->
        IF RLt(difference, AsF64(pcts[crop_index]))
        THEN push(pt[crop_index], difference, group_a)
        ELSE pt[crop_index]] @@ <<>>

update_with(st, pt, difference, group_a) ==
    Tests(push(st.first_order_uncropped_test, difference, group_a),
          pt,
          second_order_step(st.second_order_test, pt[0], difference, group_a))

\* the body of the loop of update_statistics for one index
update_one(st, pcts, time, group_a) ==
    update_with(st, cropped_step(st.percentile_tests, pcts, AsF64(time), group_a),
                AsF64(time), group_a)

RECURSIVE update_from(_, _, _, _, _, _)
update_from(i, range, st, pcts, times, groups) ==
    IF range = {} THEN st
    ELSE update_from(i + 1, range \ {i},
                     IF i \in range
                     THEN update_one(st, pcts, times[i], groups[i]) ELSE st,
                     pcts, times, groups)

\* the loop of update_statistics, in ascending order of the index
update_over(range, st, pcts, times, groups) ==
    IF range = {} THEN st
    ELSE update_from(Min(range), range, st, pcts, times, groups)

update_statistics(st, pcts, times, groups) ==
    update_over(measured_range(ArrayLen(times)), st, pcts, times, groups)

-----------------------------------------------------------------------------
(* dudect.rs: max_test and report                                          *)

partial_cmp(a_value, b_value) ==
    IF RLt(a_value, b_value) THEN "Less"
    ELSE IF RLt(b_value, a_value) THEN "Greater"
    ELSE "Equal"

\* max_test_function: f64::partial_cmp of the two t values, None taken as 0
max_test_function(a, b) ==
    partial_cmp(unwrap_or(compute(a), RZero), unwrap_or(compute(b), RZero))

LastOf(S) == CHOOSE i \in S : \A j \in S : j <= i
Greatest(values) == CHOOSE x \in values : \A y \in values : ~RLt(x, y)
IndicesOf(value, x) == {i \in DOMAIN value : value[i] = x}
LastGreatest(value) ==
    LastOf(IndicesOf(value, Greatest({value[i] : i \in DOMAIN value})))

\* Iterator::max_by(max_test_function) over a non-empty array: the
\* accumulator is replaced by the next element unless it compares Greater,
\* so of several maxima the last one is returned
max_by(pt) ==
    pt[LastGreatest([i \in DOMAIN pt |-> unwrap_or(compute(pt[i]), RZero)] @@ <<>>)]

\* if max_test_function(&&max_test, &&other) == Ordering::Less { max_test = other }
replaced_if_less(max_test_so_far, other) ==
    IF max_test_function(max_test_so_far, other) = "Less" THEN other
    ELSE max_test_so_far

\* a max_test that forgets the uncropped test
max_test_cropped_only(st) ==
    replaced_if_less(max_by(st.percentile_tests), st.second_order_test)

max_test(st) ==
    replaced_if_less(
        replaced_if_less(max_by(st.percentile_tests), st.first_order_uncropped_test),
        st.second_order_test)

\* |t| > c, for t held as its signed square
AbsExceeds(t, c) == RLt(AsF64(c * c), RAbs(t))

\* the decision ladder of report for max_t and number_traces_max_t
ladder(max_t, number_traces_max_t) ==
    IF number_traces_max_t < ENOUGH_MEASUREMENTS THEN "NoLeakageEvidenceYet"
    ELSE IF AbsExceeds(max_t, TTEST_FAILED_OVERWHELMINGLY) THEN "LeakageFound"
    ELSE IF AbsExceeds(max_t, TTEST_FAILED_MODERATE) THEN "LeakageFound"
    ELSE "NoLeakageEvidenceYet"

report_on(t) ==
    ladder(unwrap_or(compute(t), RZero),
           get_number_of_samples(t)[0] + get_number_of_samples(t)[1])

\* a report that does not wait for enough measurements
report_no_wait(st) ==
    IF AbsExceeds(unwrap_or(compute(max_test(st)), RZero), TTEST_FAILED_MODERATE)
    THEN "LeakageFound" ELSE "NoLeakageEvidenceYet"

report(st) == report_on(max_test(st))

-----------------------------------------------------------------------------
(* dudect.rs: MeasurementContext::new and execute_measurement_run          *)

Context_new(m) ==
    /\ first_tick = 0
    /\ ticks = Filled(m, 0)
    /\ number_of_computations_per_run = m
    /\ execution_times = Filled(m, 0)
    /\ first_order_uncropped_test = TTest_new
    /\ percentile_tests = Filled(NUMBER_PERCENTILES, TTest_new)
    /\ second_order_test = TTest_new
    /\ input_data = Filled(m, 0)
    /\ is_group_a = Filled(m, FALSE)
    /\ percentiles = Filled(NUMBER_PERCENTILES, 0)
    /\ result = "none"
    /\ path = "new"
    /\ runs = 0
    /\ wrapped = FALSE

\* the tick read last, before the run that starts now
last_read == IF number_of_computations_per_run = 0 THEN first_tick
             ELSE ticks[number_of_computations_per_run - 1]

\* the first-run path: prepare_percentiles has run with outcome p
warm_up(p) ==
    /\ execution_times' = p.times
    /\ percentiles' = p.pcts
    /\ path' = IF p.failed THEN "assert_panic" ELSE "warmup"
    /\ result' = IF p.failed THEN "panic" ELSE "NoLeakageEvidenceYet"
    /\ UNCHANGED <<first_order_uncropped_test, percentile_tests, second_order_test>>

\* the path of the later runs: update_statistics has left the tests st
update_and_report(times, st) ==
    /\ execution_times' = times
    /\ first_order_uncropped_test' = st.first_order_uncropped_test
    /\ percentile_tests' = st.percentile_tests
    /\ second_order_test' = st.second_order_test
    /\ path' = "update"
    /\ result' = report(st)
    /\ UNCHANGED percentiles

\* execute_measurement_run after measure, whose second loop gave m
measured(in, m) ==
    IF m.panic
    THEN /\ execution_times' = m.times
         /\ path' = "overflow_panic"
         /\ result' = "panic"
         /\ UNCHANGED <<percentiles, first_order_uncropped_test,
                        percentile_tests, second_order_test>>
    ELSE IF percentiles[ArrayLen(percentiles) - 1] = 0
    THEN warm_up(prepare_percentiles(m.times, percentiles))
    ELSE update_and_report(m.times,
             update_statistics(
                 Tests(first_order_uncropped_test, percentile_tests, second_order_test),
                 percentiles, m.times, in.groups))

\* One call of execute_measurement_run.  Its input is what the call draws
\* from outside: the random group bits, the specimen's input bytes and the
\* values cpu_ticks returns (first, then reads[i] after computation i).
execute_measurement_run(in) ==
    /\ path \notin {"overflow_panic", "assert_panic"}
    /\ is_group_a' = in.groups
    /\ input_data' = in.data
    /\ first_tick' = in.first
    /\ ticks' = in.reads
    /\ runs' = runs + 1
    /\ wrapped' = (wrapped \/ in.first < last_read
                           \/ OverflowAt(in.first, in.reads) # {})
    /\ UNCHANGED <<number_of_computations_per_run, overflow_checks, ttest, pushed>>
    /\ measured(in, measure_times(overflow_checks, in.first, in.reads, execution_times))

-----------------------------------------------------------------------------
(* What a run draws from outside.                                          *)

RECURSIVE TickAfter(_, _, _)
TickAfter(first, deltas, i) ==
    IF i < 0 THEN first
    ELSE (TickAfter(first, deltas, i - 1) + deltas[i]) % TickModulus

\* the input of a run in which computation i takes deltas[i] ticks
MakeInput(first, deltas, groups, byte) ==
    [first |-> first,
     reads |-> [i \in DOMAIN deltas |-> TickAfter(first, deltas, i)],
     groups |-> groups,
     \* the specimen of not_constant_simple.rs: group B gets zero bytes
     data |-> [i \in DOMAIN groups |-> IF groups[i] THEN byte ELSE 0]]

\* Narrow inputs: the counter starts at 0, every computation takes 2 ticks
\* and belongs to group B, but the first measured one (index 10), which
\* takes 1, 9 or 10 ticks and belongs to either group.
NarrowInputs(m) ==
    {MakeInput(0,
               [i \in 0 .. m - 1 |-> IF i = FIRST_MEASURED THEN e ELSE 2],
               [i \in 0 .. m - 1 |-> i = FIRST_MEASURED /\ g],
               255) :
        e \in {1, 9, 10}, g \in BOOLEAN}

\* Wide inputs: the counter starts at 0 or just below its wraparound; the
\* counter stands still during the whole run, or every computation takes 1
\* tick but possibly one, at the start, in the measured range or at the
\* end, which takes 20; the group bit of index 10 and that of all other
\* indices vary.
WidePatterns(m) ==
    {<<0, 0, 0>>} \cup {<<1, e, j>> : e \in {1, 20}, j \in {0, FIRST_MEASURED, m - 1}}

WideInputs(m) ==
    {MakeInput(first,
               [i \in 0 .. m - 1 |-> IF i = pat[3] THEN pat[2] ELSE pat[1]],
               [i \in 0 .. m - 1 |-> IF i = FIRST_MEASURED THEN g ELSE h],
               255) :
        first \in {0, TickModulus - 4}, pat \in WidePatterns(m),
        g \in BOOLEAN, h \in BOOLEAN}

-----------------------------------------------------------------------------
(* Specifications.                                                         *)

\* the t-test used on its own
PushValues == {<<0, 1>>, <<1, 1>>, <<5, 2>>}

TTestPush(v, g) ==
    /\ Len(pushed) < MaxPushes
    /\ ttest' = push(ttest, v, g)
    /\ pushed' = Append(pushed, <<v, g>>)
    /\ UNCHANGED ctxvars

InitTTest ==
    /\ Context_new(NumComputations)
    /\ overflow_checks = TRUE
    /\ ttest = TTest_new
    /\ pushed = <<>>

NextTTest == \E v \in PushValues, g \in BOOLEAN : TTestPush(v, g)

SpecTTest == InitTTest /\ [][NextTTest]_vars

\* long sequences of runs on narrow inputs
Run ==
    /\ runs < MaxRuns
    /\ \E in \in NarrowInputs(number_of_computations_per_run) :
          execute_measurement_run(in)

Init ==
    /\ Context_new(NumComputations)
    /\ overflow_checks = TRUE
    /\ ttest = TTest_new
    /\ pushed = <<>>

Next == Run

Spec == Init /\ [][Next]_vars

\* short sequences of runs on wide inputs, for contexts of several sizes
WideRun ==
    /\ runs < MaxWideRuns
    /\ \E in \in WideInputs(number_of_computations_per_run) :
          execute_measurement_run(in)

InitWide ==
    /\ \E m \in {0, SmallRun, NumComputations} : Context_new(m)
    /\ overflow_checks \in BOOLEAN
    /\ ttest = TTest_new
    /\ pushed = <<>>

NextWide == WideRun

SpecWide == InitWide /\ [][NextWide]_vars

-----------------------------------------------------------------------------
(* The t-test against the two-pass statistics of the values pushed.        *)

\* the values pushed so far to group A (TRUE) or B (FALSE), in order
RECURSIVE PushedTo(_, _)
PushedTo(ps, g) ==
    IF ps = <<>> THEN <<>>
    ELSE IF Head(ps)[2] = g THEN <<Head(ps)[1]>> \o PushedTo(Tail(ps), g)
    ELSE PushedTo(Tail(ps), g)

RECURSIVE RSum(_)
RSum(xs) == IF xs = <<>> THEN RZero ELSE RAdd(Head(xs), RSum(Tail(xs)))

RECURSIVE RSumSqDev(_, _)
RSumSqDev(xs, mu) ==
    IF xs = <<>> THEN RZero
    ELSE RAdd(RMul(RSub(Head(xs), mu), RSub(Head(xs), mu)), RSumSqDev(Tail(xs), mu))

\* sample mean and sample variance of a list of at least 2 values
MeanOf(xs) == RDiv(RSum(xs), AsF64(Len(xs)))
VarianceOf(xs) == RDiv(RSumSqDev(xs, MeanOf(xs)), AsF64(Len(xs) - 1))

\* the square of the combined standard error sqrt(varA/nA + varB/nB)
StdErrSquared(as, bs) ==
    RAdd(RDiv(VarianceOf(as), AsF64(Len(as))), RDiv(VarianceOf(bs), AsF64(Len(bs))))

\* C4: compute() returns None exactly when group A has at most 1 sample,
\* or group B has at most 1 sample, or the combined standard error of the
\* values pushed is 0; in every other state it returns (meanA - meanB)
\* divided by that standard error.
C4_ComputeNoneIffDegenerate ==
    LET as == PushedTo(pushed, TRUE)
        bs == PushedTo(pushed, FALSE)
        few == Len(as) <= 1 \/ Len(bs) <= 1
    IN  /\ compute(ttest) = None <=> (few \/ StdErrSquared(as, bs) = RZero)
        /\ compute(ttest) # None =>
              compute(ttest) = Some(TValue(RSub(MeanOf(as), MeanOf(bs)),
                                           StdErrSquared(as, bs)))

\* C4 witness: a t-test with a t value that is not 0, after pushes of
\* different values to one group
C4_Witness ==
    /\ compute(ttest) # None
    /\ compute(ttest) # Some(RZero)
    /\ \E i, j \in DOMAIN pushed :
          pushed[i][2] = pushed[j][2] /\ pushed[i][1] # pushed[j][1]

\* the same value pushed to group A once and to group B once, nothing else
SameValueOnceEach ==
    /\ Len(pushed) = 2
    /\ pushed[1][1] = pushed[2][1]
    /\ pushed[1][2] # pushed[2][2]

\* C6 as stated: after the same value v was pushed to group A once and to
\* group B once, compute() yields t = 0.
C6_AsStated == SameValueOnceEach => compute(ttest) = Some(RZero)

\* C6 amended: after the same value v was pushed to group A once and to
\* group B once, both groups count 1 sample and have mean v, and compute()
\* returns None (a group with at most 1 sample); the t value 0 is what
\* max_test and report make of it with unwrap_or(0.0).
C6_OnceEachIsNone ==
    SameValueOnceEach =>
        /\ get_number_of_samples(ttest) = [g \in {0, 1} |-> 1]
        /\ get_mean(ttest) = [g \in {0, 1} |-> pushed[1][1]]
        /\ compute(ttest) = None
        /\ unwrap_or(compute(ttest), RZero) = RZero

\* C6 witness: the value 5/2 was pushed to group B and then to group A
C6_Witness ==
    /\ SameValueOnceEach
    /\ pushed = << <<(<<5, 2>>), FALSE>>, <<(<<5, 2>>), TRUE>> >>

-----------------------------------------------------------------------------
(* report, max_test and the second-order test, over sequences of runs.     *)

CurrentTests ==
    Tests(first_order_uncropped_test, percentile_tests, second_order_test)

\* the 102 t-tests of the context
AllTests ==
    {percentile_tests[k] : k \in DOMAIN percentile_tests}
        \cup {first_order_uncropped_test, second_order_test}

\* compute() with an absent value taken as 0
TOrZero(t) == unwrap_or(compute(t), RZero)

SamplesOf(t) == get_number_of_samples(t)[0] + get_number_of_samples(t)[1]

\* C1: a run that reached report returned LeakageFound exactly when the
\* test T = max_test() holds at least ENOUGH_MEASUREMENTS samples and
\* |T.compute()| (absent taken as 0) exceeds 10; so a report with fewer
\* samples returned NoLeakageEvidenceYet whatever the t values are.
C1_LeakageIffEnoughAndOverTen ==
    path = "update" =>
        LET T == max_test(CurrentTests)
        IN  /\ result \in {"LeakageFound", "NoLeakageEvidenceYet"}
            /\ result = "LeakageFound" <=>
                  (/\ SamplesOf(T) >= ENOUGH_MEASUREMENTS
                   /\ RLt(AsF64(TTEST_FAILED_MODERATE * TTEST_FAILED_MODERATE),
                          RAbs(TOrZero(T))))

\* C1 witness: a report that found |t| > 10 on too few samples and
\* returned NoLeakageEvidenceYet
C1_Witness ==
    /\ path = "update"
    /\ result = "NoLeakageEvidenceYet"
    /\ SamplesOf(max_test(CurrentTests)) < ENOUGH_MEASUREMENTS
    /\ RLt(AsF64(100), RAbs(TOrZero(max_test(CurrentTests))))

\* a report that returned LeakageFound
C1_LeakageReached ==
    /\ path = "update"
    /\ result = "LeakageFound"

\* C5: max_test returns one of the 102 tests, and its compute() value
\* (absent taken as 0) is greater than or equal to that of every one of
\* the 102 tests, compared as signed values.
C5_MaxTestIsGreatest ==
    LET X == max_test(CurrentTests)
    IN  /\ X \in AllTests
        /\ \A Y \in AllTests : ~RLt(TOrZero(X), TOrZero(Y))

\* C5 witness: the uncropped test is returned, with a t value above that
\* of every percentile test and of the second-order test
C5_Witness ==
    /\ path = "update"
    /\ max_test(CurrentTests) = first_order_uncropped_test
    /\ RLt(RZero, TOrZero(first_order_uncropped_test))
    /\ \A Y \in AllTests \ {first_order_uncropped_test} :
          RLt(TOrZero(Y), TOrZero(first_order_uncropped_test))

\* the second-order test is returned, with the greatest t value alone
C5_SecondOrderReached ==
    /\ max_test(CurrentTests) = second_order_test
    /\ RLt(RZero, TOrZero(second_order_test))
    /\ \A Y \in AllTests \ {second_order_test} :
          RLt(TOrZero(Y), TOrZero(second_order_test))

\* C9: second_order_test holds a sample only in a state where the group-A
\* count of percentile_tests[0] is above the threshold (counts never
\* decrease, so it is empty as long as the count has never exceeded it).
C9_SecondOrderEmptyUntilEngaged ==
    SamplesOf(second_order_test) > 0 =>
        get_number_of_samples(percentile_tests[0])[0] > SECOND_ORDER_AFTER

\* C9 witness: the second-order test holds samples of both groups
C9_Witness ==
    /\ get_number_of_samples(second_order_test)[0] > 0
    /\ get_number_of_samples(second_order_test)[1] > 0
    /\ get_number_of_samples(percentile_tests[0])[0] = SECOND_ORDER_AFTER + 1

-----------------------------------------------------------------------------
(* The first run, measure, the measured range and the percentiles.         *)

NoTestTouched ==
    /\ first_order_uncropped_test = TTest_new
    /\ \A k \in DOMAIN percentile_tests : percentile_tests[k] = TTest_new
    /\ second_order_test = TTest_new

\* C2 as stated: the first call of execute_measurement_run on a fresh
\* context (of at least one computation per run) returns
\* NoLeakageEvidenceYet for every group assignment and every tick sequence,
\* and pushes no sample to any t-test.
C2_FirstRunReturnsNoEvidence ==
    (runs = 1 /\ number_of_computations_per_run >= 1) =>
        /\ result = "NoLeakageEvidenceYet"
        /\ NoTestTouched

\* C3 as stated: with a tick sequence that never decreases, every call
\* after the first runs update_statistics and report; the percentiles are
\* seeded by the first call only.
C3_OnlyFirstRunIsWarmup ==
    (runs >= 2 /\ ~wrapped) => path = "update"

\* the time of computation i as C7 gives it
ElapsedMod(i) == (ticks[i] - previous_tick(first_tick, ticks, i)) % TickModulus

\* C7 as stated: after measure, execution_times[i] is
\* (ticks[i] - ticks[i-1]) mod 2^w with ticks[-1] = first_tick, also when
\* the counter wrapped between the two reads; the run completes normally.
\* (A warm-up run has sorted these values by the time it returns.)
C7_MeasureWrapsAndCompletes ==
    runs >= 1 =>
        /\ result # "panic" \/ number_of_computations_per_run = 0
        /\ path = "update" =>
              \A i \in DOMAIN execution_times : execution_times[i] = ElapsedMod(i)
        /\ path = "warmup" =>
              execution_times = sort_unstable([i \in DOMAIN ticks |-> ElapsedMod(i)])

\* the indices [10, M-1) of C8
ClaimedRange == {i \in DOMAIN execution_times :
                    FIRST_MEASURED <= i /\ i < number_of_computations_per_run - 1}

RECURSIVE SumOver(_, _)
SumOver(S, f) ==
    IF S = {} THEN 0
    ELSE LET i == CHOOSE x \in S : TRUE IN f[i] + SumOver(S \ {i}, f)

\* the sum of the samples of group g of t-test t (mean * number_samples)
SampleSum(t, g) == RMul(t.groups[g].mean, AsF64(t.groups[g].number_samples))

\* C8: a run that calls update_statistics changes the t-tests as a run
\* would whose execution_times and group bits outside [10, M-1) are all 0
\* and FALSE: the values at the indices 0..9 and M-1 reach no t-test.  And
\* first_order_uncropped_test receives every index of [10, M-1) once,
\* under is_group_a[i]: each group's count grows by the number of its
\* indices and its sum by their execution times.
C8_OnlyMeasuredRangeIsPushed ==
    [][path' = "update" =>
        LET masked_times == [i \in DOMAIN execution_times' |->
                               IF i \in ClaimedRange' THEN execution_times'[i] ELSE 0]
            masked_groups == [i \in DOMAIN is_group_a' |->
                               i \in ClaimedRange' /\ is_group_a'[i]]
            of_group(g) == {i \in ClaimedRange' : is_group_a'[i] = (g = 0)}
        IN  /\ CurrentTests' =
                  update_statistics(CurrentTests, percentiles, masked_times, masked_groups)
            /\ \A g \in {0, 1} :
                  /\ get_number_of_samples(first_order_uncropped_test')[g] =
                        get_number_of_samples(first_order_uncropped_test)[g]
                            + Cardinality(of_group(g))
                  /\ SampleSum(first_order_uncropped_test', g) =
                        RAdd(SampleSum(first_order_uncropped_test, g),
                             AsF64(SumOver(of_group(g), execution_times')))
    ]_vars

\* C8 witness: a run with a spike of 20 ticks at index 0 that pushed the
\* indices 10 and 11, of 1 tick each, to both groups of the uncropped test
C8_Witness ==
    /\ path = "update"
    /\ execution_times[0] = 20
    /\ ClaimedRange = {10, 11}
    /\ get_number_of_samples(first_order_uncropped_test) = [g \in {0, 1} |-> 1]
    /\ get_mean(first_order_uncropped_test) = [g \in {0, 1} |-> AsF64(1)]

\* the position floor(M * q_k) of C10
ClaimedPosition(k) ==
    (number_of_computations_per_run * which_of(k)[1]) \div which_of(k)[2]

\* C10: with M >= 1 the assertion of percentile never fires, and after
\* prepare_percentiles the buffer is sorted, percentiles[k] is its element
\* at index floor(M * q_k), and percentiles[k] <= percentiles[k+1].
C10_PercentilesMonotone ==
    number_of_computations_per_run >= 1 =>
        /\ path # "assert_panic"
        /\ path = "warmup" =>
              /\ \A i \in DOMAIN execution_times :
                    i + 1 \in DOMAIN execution_times =>
                        execution_times[i] <= execution_times[i + 1]
              /\ \A k \in DOMAIN percentiles :
                    /\ ClaimedPosition(k) \in DOMAIN execution_times
                    /\ percentiles[k] = execution_times[ClaimedPosition(k)]
                    /\ k + 1 \in DOMAIN percentiles => percentiles[k] <= percentiles[k + 1]

\* C10 witness: a warm-up run whose slowest computation was the first one
\* (ticks[0] - first_tick = 20), with thresholds from 1 up to 20
C10_Witness ==
    /\ path = "warmup"
    /\ number_of_computations_per_run = NumComputations
    /\ wrapping_sub(ticks[0], first_tick) = 20
    /\ percentiles[0] = 1
    /\ percentiles[NUMBER_PERCENTILES - 1] = 20

=============================================================================
